---- MODULE Spec2Model ----
(***************************************************************************)
(* Constructive solid geometry on BSP trees (Zinfidel/solidgeometry).      *)
(*                                                                         *)
(* Numbers are JavaScript doubles in the source.  Every input of the       *)
(* bounded sets below has integer coordinates and lies in axis-aligned     *)
(* planes, so every intermediate value of the source (unit normals, plane  *)
(* distances, cut points) is an integer and is computed exactly; a value   *)
(* that would leave the integers makes Sqrt undefined and stops the check. *)
(***************************************************************************)
EXTENDS Integers, Sequences, FiniteSets, TLC

VARIABLES
    front, samePlane, behind, reversePlane, \* the four output arrays handed to bisect
    lastCall,                               \* the arguments of the latest bisect call
    tree, trimIn, trimOut,                  \* a BSP tree, the list given to trim, trim's result
    geo1, geo2, op, result,                 \* operands, operator and result of a boolean operation
    heap, roots, calls,                     \* BSPNode objects, the variables that refer to trees, the calls made
    order,                                  \* a polygon list in two orders and the two flattened trees
    call,                                   \* the boolean operator being run: arguments, local trees, position
    meshes, geometry,                       \* the meshes of the scene (mesh ids) and the geometry of every mesh created
    sceneList,                              \* the options of the sceneList control (mesh ids)
    event,                                  \* the latest scene event and the deleteMesh calls it made
    selected, picked, boolGeo1, boolGeo2,   \* the mesh references of project.js (NoMesh when null)
    MeshIDs                                 \* the counter that names and numbers the meshes

bisectVars == <<front, samePlane, behind, reversePlane, lastCall>>
treeVars == <<tree, trimIn, trimOut>>
boolVars == <<geo1, geo2, op, result>>
heapVars == <<heap, roots, calls>>
sceneVars == <<meshes, geometry, sceneList, event, selected, picked, boolGeo1, boolGeo2, MeshIDs>>
vars == <<front, samePlane, behind, reversePlane, lastCall, tree, trimIn, trimOut,
          geo1, geo2, op, result, heap, roots, calls, order, call,
          meshes, geometry, sceneList, event, selected, picked, boolGeo1, boolGeo2, MeshIDs>>

\* null / undefined of the source
Null == [null |-> TRUE]

\* null / undefined where a reference to a BSPNode object is expected
NoNode == 0

\* null / undefined where a reference to a Mesh object is expected
NoMesh == 0

(***************************************************************************)
(* Sequence helpers                                                        *)
(***************************************************************************)
RECURSIVE Flatten(_)
Flatten(ss) == IF ss = <<>> THEN <<>> ELSE Head(ss) \o Flatten(Tail(ss))

Reverse(s) == [i \in 1..Len(s) |-> s[Len(s) + 1 - i]]

Range(s) == {s[i] : i \in 1..Len(s)}

(***************************************************************************)
(* Vector                                                                  *)
(***************************************************************************)
Vector(x, y, z) == [x |-> x, y |-> y, z |-> z]

plus(u, v) == Vector(u.x + v.x, u.y + v.y, u.z + v.z)

minus(u, v) == Vector(u.x - v.x, u.y - v.y, u.z - v.z)

times(u, t) == Vector(u.x * t, u.y * t, u.z * t)

\* exact quotient; t is never 0 for the polygons of the bounded sets
divide(u, t) == Vector(u.x \div t, u.y \div t, u.z \div t)

dot(u, v) == u.x * v.x + u.y * v.y + u.z * v.z

cross(u, v) == Vector(u.y * v.z - u.z * v.y,
                      u.z * v.x - u.x * v.z,
                      u.x * v.y - u.y * v.x)

\* Math.sqrt on the perfect squares the bounded sets produce
MaxMag == 64
Sqrt(n) == CHOOSE r \in 0..MaxMag : r * r = n

magnitude(u) == Sqrt(dot(u, u))

VectorFlip(u) == times(u, -1)

unit(u) == divide(u, magnitude(u))

\* lerp that ignores t and returns the midpoint
lerpMidpoint(u, other, num, den) == divide(plus(u, other), 2)

\* lerp(other, t) with t = num / den: this.times(1 - t).plus(other.times(t))
lerp(u, other, num, den) == divide(plus(times(u, den - num), times(other, num)), den)

VectorClone(u) == Vector(u.x, u.y, u.z)

(***************************************************************************)
(* Plane (Hessian normal form)                                             *)
(***************************************************************************)
Plane(normal, p) == [normal |-> normal, p |-> p]

ofTriangle(a, b, c) ==
    LET u == minus(a, b)
        v == minus(c, b)
        normal == unit(cross(v, u))
    IN  Plane(normal, -dot(normal, a))

\* flip that keeps the sign of p
PlaneFlipKeepsP(pl) == Plane(VectorFlip(pl.normal), pl.p)

PlaneFlip(pl) == Plane(VectorFlip(pl.normal), -pl.p)

PlaneClone(pl) == Plane(pl.normal, pl.p)

(***************************************************************************)
(* Polygon                                                                 *)
(***************************************************************************)
Polygon(vertices, color) ==
    [vertices |-> vertices, color |-> color,
     plane |-> ofTriangle(vertices[1], vertices[2], vertices[3])]

\* clone that answers with the polygon itself
PolygonCloneShared(poly) == poly

PolygonClone(poly) ==
    Polygon([i \in 1..Len(poly.vertices) |-> VectorClone(poly.vertices[i])], poly.color)

\* flip that reverses the vertices and leaves the copy's plane as it is
PolygonFlipKeepsPlane(poly) ==
    LET copy == PolygonClone(poly)
    IN  [copy EXCEPT !.vertices = Reverse(copy.vertices)]

\* the copy is written in place: its vertices reversed, its plane replaced
PolygonFlip(poly) ==
    LET copy == PolygonClone(poly)
    IN  [copy EXCEPT !.vertices = Reverse(copy.vertices),
                     !.plane = PlaneFlip(copy.plane)]

(***************************************************************************)
(* Plane.prototype.bisect                                                  *)
(***************************************************************************)
\* the tolerance 1e-5 as the fraction EpsNum / EpsDen
EpsNum == 1
EpsDen == 100000

\* signed distance of a vertex to the plane
Distance(pl, v) == dot(pl.normal, v) + pl.p

Location(pl, v) ==
    LET d == Distance(pl, v)
    IN  IF d * EpsDen > EpsNum THEN "front"
        ELSE IF d * EpsDen < -EpsNum THEN "back"
        ELSE "plane"

isCoplanar(pl, polygon) ==
    \A i \in 1..Len(polygon.vertices) : Location(pl, polygon.vertices[i]) = "plane"

\* the coplanar test with its branches exchanged
CoplanarBucketSwapped(pl, polygon) ==
    IF dot(pl.normal, polygon.plane.normal) > 0 THEN "reversePlane" ELSE "samePlane"

\* the bucket a wholly coplanar polygon is pushed to
CoplanarBucket(pl, polygon) ==
    IF dot(pl.normal, polygon.plane.normal) > 0 THEN "samePlane" ELSE "reversePlane"

\* the vertices 0-based index i-1 and its successor contribute to newFront / newBack
NextIndex(polygon, i) == (i % Len(polygon.vertices)) + 1

Crosses(loc1, loc2) == loc1 /= loc2 /\ loc1 /= "plane" /\ loc2 /= "plane"

bisectPoint(pl, vert1, vert2) ==
    LET V == minus(vert2, vert1)
        num == -(dot(vert1, pl.normal) + pl.p)
        den == dot(V, pl.normal)
    IN  lerp(vert1, vert2, num, den)

FrontContribution(pl, polygon, i) ==
    LET vert1 == polygon.vertices[i]
        vert2 == polygon.vertices[NextIndex(polygon, i)]
        loc1 == Location(pl, vert1)
        loc2 == Location(pl, vert2)
    IN  (IF loc1 = "back" THEN <<>> ELSE <<vert1>>)
        \o (IF Crosses(loc1, loc2) THEN <<bisectPoint(pl, vert1, vert2)>> ELSE <<>>)

BackContribution(pl, polygon, i) ==
    LET vert1 == polygon.vertices[i]
        vert2 == polygon.vertices[NextIndex(polygon, i)]
        loc1 == Location(pl, vert1)
        loc2 == Location(pl, vert2)
    IN  (IF loc1 = "front" THEN <<>> ELSE <<VectorClone(vert1)>>)
        \o (IF Crosses(loc1, loc2)
            THEN <<VectorClone(bisectPoint(pl, vert1, vert2))>> ELSE <<>>)

newFront(pl, polygon) ==
    Flatten([i \in 1..Len(polygon.vertices) |-> FrontContribution(pl, polygon, i)])

newBack(pl, polygon) ==
    Flatten([i \in 1..Len(polygon.vertices) |-> BackContribution(pl, polygon, i)])

\* bisect that gives its new polygons a default color
SplitColorDefault(polygon) == "blue"

\* the color given to the polygons bisect creates
SplitColor(polygon) == polygon.color

\* the test of the length written as > 3
MinVerticesExclusive == 3 + 1

\* the least number of vertices of a polygon bisect creates
MinVertices == 3

\* a push of a polygon that kept only its first edge
PushFirstEdge(to, poly) ==
    [to |-> to, poly |-> [poly EXCEPT !.vertices = SubSeq(poly.vertices, 1, 2)]]

Push(to, poly) == [to |-> to, poly |-> poly]

\* bisect(polygon, front, samePlane, behind, reversePlane) as the sequence of
\* pushes it performs, in order; each names the parameter pushed to
bisect(pl, polygon) ==
    IF isCoplanar(pl, polygon)
    THEN <<Push(CoplanarBucket(pl, polygon), polygon)>>
    ELSE LET nf == newFront(pl, polygon)
             nb == newBack(pl, polygon)
         IN  (IF Len(nf) >= MinVertices
              THEN <<Push("front", Polygon(nf, SplitColor(polygon)))>> ELSE <<>>)
             \o (IF Len(nb) >= MinVertices
                 THEN <<Push("behind", Polygon(nb, SplitColor(polygon)))>> ELSE <<>>)

\* the pushes of a loop that bisects every polygon of a list, in order
bisectAll(pl, polys) == Flatten([i \in 1..Len(polys) |-> bisect(pl, polys[i])])

\* the polygons a sequence of pushes appends to an array that was passed for
\* the parameters named in params
Pushed(pushes, params) ==
    LET sel == SelectSeq(pushes, LAMBDA q : q.to \in params)
    IN  [i \in 1..Len(sel) |-> sel[i].poly]

(***************************************************************************)
(* BSPNode                                                                 *)
(***************************************************************************)
BSPNode == [hyperPlane |-> Null, polygons |-> <<>>, front |-> Null, behind |-> Null]

\* the plane Partition stores in the node it is working on
PartitionPlane(polygons, root) == PlaneClone(polygons[1].plane)

\* Partition that keeps in the node only the polygons facing as its plane does
PartitionKeepsSamePlane == {"samePlane"}

\* the parameters of bisect that Partition passes root.polygons for
PartitionKeeps == {"samePlane", "reversePlane"}

\* the parameter of bisect that Partition passes left for
PartitionLeft == {"front"}

\* Partition that passes right for the polygons facing against the plane too
PartitionRightAndReverse == {"behind", "reversePlane"}

\* the parameter of bisect that Partition passes right for
PartitionRight == {"behind"}

\* Partition that answers an empty list with a tree
PartitionOfNothingIsTree(t) == IF t /= Null THEN t ELSE BSPNode

\* the undefined that Partition returns for an empty or absent list, before
\* it has read or written the tree; an absent list is the empty list here
PartitionOfNothing(t) == Null

\* BSPNode.Partition(polygons, tree); an absent tree is Null, and so is the
\* undefined the function returns for an empty (or absent) list
RECURSIVE Partition(_, _)
Partition(polygons, t) ==
    IF Len(polygons) = 0 THEN PartitionOfNothing(t)
    ELSE LET root == IF t /= Null THEN t ELSE BSPNode
             hp == PartitionPlane(polygons, root)
             pushes == bisectAll(hp, polygons)
             left == Pushed(pushes, PartitionLeft)
             right == Pushed(pushes, PartitionRight)
         IN  [hyperPlane |-> hp,
              polygons |-> root.polygons \o Pushed(pushes, PartitionKeeps),
              front |-> IF Len(left) > 0
                        THEN Partition(left, IF root.front = Null THEN BSPNode
                                             ELSE root.front)
                        ELSE root.front,
              behind |-> IF Len(right) > 0
                         THEN Partition(right, IF root.behind = Null THEN BSPNode
                                               ELSE root.behind)
                         ELSE root.behind]

\* concatPolys that forgets the behind subtree
RECURSIVE concatPolysNoBehind(_)
concatPolysNoBehind(t) ==
    t.polygons \o (IF t.front /= Null THEN concatPolysNoBehind(t.front) ELSE <<>>)

RECURSIVE concatPolys(_)
concatPolys(t) ==
    t.polygons
    \o (IF t.front /= Null THEN concatPolys(t.front) ELSE <<>>)
    \o (IF t.behind /= Null THEN concatPolys(t.behind) ELSE <<>>)

RECURSIVE clone(_)
clone(t) ==
    [hyperPlane |-> IF t.hyperPlane /= Null THEN PlaneClone(t.hyperPlane) ELSE Null,
     front |-> IF t.front /= Null THEN clone(t.front) ELSE Null,
     behind |-> IF t.behind /= Null THEN clone(t.behind) ELSE Null,
     polygons |-> [i \in 1..Len(t.polygons) |-> PolygonClone(t.polygons[i])]]

\* flip without the swap of the children
RECURSIVE flipNoSwap(_)
flipNoSwap(t) ==
    LET copy == clone(t)
        f == IF copy.front /= Null THEN flipNoSwap(copy.front) ELSE copy.front
        b == IF copy.behind /= Null THEN flipNoSwap(copy.behind) ELSE copy.behind
    IN  [hyperPlane |-> PlaneFlip(copy.hyperPlane),
         polygons |-> [i \in 1..Len(copy.polygons) |-> PolygonFlip(copy.polygons[i])],
         front |-> f,
         behind |-> b]

\* BSPNode.prototype.flip; the children are flipped and then swapped
RECURSIVE flip(_)
flip(t) ==
    LET copy == clone(t)
        f == IF copy.front /= Null THEN flip(copy.front) ELSE copy.front
        b == IF copy.behind /= Null THEN flip(copy.behind) ELSE copy.behind
    IN  [hyperPlane |-> PlaneFlip(copy.hyperPlane),
         polygons |-> [i \in 1..Len(copy.polygons) |-> PolygonFlip(copy.polygons[i])],
         front |-> b,
         behind |-> f]

\* trim that passes inside for both coplanar parameters
TrimBucketCoplanarInside(to) == IF to = "front" THEN "out" ELSE "inside"

\* the array trim passes to bisect for each parameter: bisect(polys[i], out,
\* out, inside, inside)
TrimBucket(to) == IF to \in {"front", "samePlane"} THEN "out" ELSE "inside"

BisectParams == {"front", "samePlane", "behind", "reversePlane"}

\* the out and inside arrays of trim after its loop over polys
OutBucket(t, polys) ==
    Pushed(bisectAll(t.hyperPlane, polys), {to \in BisectParams : TrimBucket(to) = "out"})

InsideBucket(t, polys) ==
    Pushed(bisectAll(t.hyperPlane, polys), {to \in BisectParams : TrimBucket(to) = "inside"})

\* trim that keeps the inside array at a node without a behind child
NoBehindKeepsAll(inside) == inside

\* what trim keeps of the inside array at a node without a behind child
NoBehindKeeps(inside) == <<>>

RECURSIVE trim(_, _)
trim(t, polys) ==
    IF t.hyperPlane = Null THEN polys
    ELSE LET out0 == OutBucket(t, polys)
             inside0 == InsideBucket(t, polys)
             out == IF t.front /= Null THEN trim(t.front, out0) ELSE out0
             inside == IF t.behind /= Null THEN trim(t.behind, inside0)
                       ELSE NoBehindKeeps(inside0)
         IN  out \o inside

\* treeTrimSelf that trims the root only
treeTrimSelfRootOnly(this, t) ==
    [hyperPlane |-> this.hyperPlane, polygons |-> trim(t, this.polygons),
     front |-> this.front, behind |-> this.behind]

\* this.treeTrimSelf(tree): the node after the call
RECURSIVE treeTrimSelf(_, _)
treeTrimSelf(this, t) ==
    [hyperPlane |-> this.hyperPlane,
     polygons |-> trim(t, this.polygons),
     front |-> IF this.front /= Null THEN treeTrimSelf(this.front, t) ELSE this.front,
     behind |-> IF this.behind /= Null THEN treeTrimSelf(this.behind, t) ELSE this.behind]

(***************************************************************************)
(* Geometry and the Cube factory                                           *)
(***************************************************************************)
\* the rotation of every geometry of the bounded sets is (0, 0, 0)
Geometry(polygons, pos, scl) == [polygons |-> polygons, pos |-> pos, scale |-> scl]

DefaultPos == Vector(0, 0, 0)
DefaultScale == Vector(1, 1, 1)

\* new Geometry(polygons) with the default transform
NewGeometry(polygons) == Geometry(polygons, DefaultPos, DefaultScale)

CubeVerts == <<Vector(-1, 1, 1), Vector(-1, -1, 1), Vector(1, -1, 1), Vector(1, 1, 1),
               Vector(-1, 1, -1), Vector(1, 1, -1), Vector(1, -1, -1), Vector(-1, -1, -1)>>

\* the 0-based indices of the source, plus one
CubeIndices == <<<<1, 2, 3, 4>>, <<1, 4, 6, 5>>, <<4, 3, 7, 6>>,
                 <<1, 5, 8, 2>>, <<3, 2, 8, 7>>, <<5, 6, 7, 8>>>>

Cube(pos, scl, color) ==
    Geometry([k \in 1..Len(CubeIndices) |->
                 Polygon([j \in 1..4 |-> CubeVerts[CubeIndices[k][j]]], color)],
             pos, scl)

\* instance matrix translate * rotate * scale applied to a vertex, rotation 0
Transform(geo, v) ==
    Vector(geo.pos.x + geo.scale.x * v.x,
           geo.pos.y + geo.scale.y * v.y,
           geo.pos.z + geo.scale.z * v.z)

transformedGeometry(geo) ==
    NewGeometry([k \in 1..Len(geo.polygons) |->
        Polygon([j \in 1..Len(geo.polygons[k].vertices) |->
                    Transform(geo, geo.polygons[k].vertices[j])],
                geo.polygons[k].color)])

(***************************************************************************)
(* Boolean operators                                                       *)
(***************************************************************************)
\* calling a method on the undefined that Partition returned for an empty list
TypeError == [error |-> "TypeError"]

toGeometry(t) == NewGeometry(concatPolys(t))

\* Partition(polys, tree) called for its effect on tree
PartitionInto(polys, t) == IF polys = <<>> THEN t ELSE Partition(polys, t)

\* Union without its second trimming pass
RemoveDuplicatesSkipped(tree2, tree1) == tree2

\* the second trimming pass of Union: flip, trim, flip back
RemoveDuplicates(tree2, tree1) == flip(treeTrimSelf(flip(tree2), tree1))

\* the two local variables of a Boolean operator
Trees(g1, g2) ==
    [tree1 |-> Partition(g1.polygons, Null), tree2 |-> Partition(g2.polygons, Null)]

\* one statement of a Boolean operator's body, acting on its two trees
Statement(s, stmt) ==
    CASE stmt = "tree1.treeTrimSelf(tree2)" ->
            [s EXCEPT !.tree1 = treeTrimSelf(s.tree1, s.tree2)]
      [] stmt = "tree2.treeTrimSelf(tree1)" ->
            [s EXCEPT !.tree2 = treeTrimSelf(s.tree2, s.tree1)]
      [] stmt = "tree1 = tree1.flip()" ->
            [s EXCEPT !.tree1 = flip(s.tree1)]
      [] stmt = "tree2 = tree2.flip()" ->
            [s EXCEPT !.tree2 = flip(s.tree2)]
      [] stmt = "remove duplicates" ->
            [s EXCEPT !.tree2 = RemoveDuplicates(s.tree2, s.tree1)]
      [] stmt = "Partition(tree2.concatPolys(), tree1)" ->
            [s EXCEPT !.tree1 = PartitionInto(concatPolys(s.tree2), s.tree1)]

RECURSIVE Run(_, _)
Run(s, stmts) ==
    IF stmts = <<>> THEN s ELSE Run(Statement(s, Head(stmts)), Tail(stmts))

\* the statements run in order; a missing tree throws at the first method call
Body(g1, g2, stmts) ==
    LET s == Trees(g1, g2)
    IN  IF s.tree1 = Null \/ s.tree2 = Null THEN TypeError
        ELSE toGeometry(Run(s, stmts).tree1)

\* the statements of Union after the two trees are built
UnionBody ==
    << "tree1.treeTrimSelf(tree2)",
       "tree2.treeTrimSelf(tree1)",
       "remove duplicates",
       "Partition(tree2.concatPolys(), tree1)" >>

IntersectBody ==
    << "tree1 = tree1.flip()",
       "tree2.treeTrimSelf(tree1)",
       "tree2 = tree2.flip()",
       "tree1.treeTrimSelf(tree2)",
       "tree2.treeTrimSelf(tree1)",
       "Partition(tree2.concatPolys(), tree1)",
       "tree1 = tree1.flip()" >>

SubtractBody ==
    << "tree1 = tree1.flip()",
       "tree1.treeTrimSelf(tree2)",
       "tree2.treeTrimSelf(tree1)",
       "tree2 = tree2.flip()",
       "tree2.treeTrimSelf(tree1)",
       "tree2 = tree2.flip()",
       "Partition(tree2.concatPolys(), tree1)",
       "tree1 = tree1.flip()" >>

Union(g1, g2) == Body(g1, g2, UnionBody)

Intersect(g1, g2) == Body(g1, g2, IntersectBody)

Subtract(g1, g2) == Body(g1, g2, SubtractBody)

(***************************************************************************)
(* Bounded input sets                                                      *)
(***************************************************************************)
\* unit-scale cubes are placed at (x, y, 0) with x in 0..MaxShiftX and y in
\* 0..MaxShiftY, and at (1, 1, 1); one more cube is stretched along x
MaxShiftX == 2
MaxShiftY == 1

Colors == {"blue", "orange"}

Positions ==
    {Vector(x, y, 0) : x \in 0..MaxShiftX, y \in 0..MaxShiftY} \cup {Vector(1, 1, 1)}

\* createCube draws every cube in one color
Solids ==
    {Cube(pos, Vector(1, 1, 1), "blue") : pos \in Positions}
    \cup {Cube(Vector(0, 0, 0), Vector(2, 1, 1), "blue")}

\* Geometry.prototype.setColor
setColor(geo, color) ==
    Geometry([k \in 1..Len(geo.polygons) |->
                 [geo.polygons[k] EXCEPT !.color = color]], geo.pos, geo.scale)

(***************************************************************************)
(* Measures on the unit grid, used to state the claims.  Every polygon of  *)
(* the bounded sets is an axis-aligned rectangle with integer corners, so  *)
(* a surface is a set of oriented unit squares (facets) and a volume is a  *)
(* set of unit cells.                                                      *)
(***************************************************************************)
Axes == {"x", "y", "z"}

GridHi == MaxShiftX + MaxShiftY + 4
GridLo == -GridHi

AxisOf(n) == CHOOSE k \in Axes : n[k] /= 0

Others(k) == IF k = "x" THEN <<"y", "z">> ELSE IF k = "y" THEN <<"x", "z">> ELSE <<"x", "y">>

MinCoord(poly, k) ==
    CHOOSE m \in {poly.vertices[i][k] : i \in 1..Len(poly.vertices)} :
        \A i \in 1..Len(poly.vertices) : m <= poly.vertices[i][k]

MaxCoord(poly, k) ==
    CHOOSE m \in {poly.vertices[i][k] : i \in 1..Len(poly.vertices)} :
        \A i \in 1..Len(poly.vertices) : m >= poly.vertices[i][k]

\* the polygon is a rectangle in an axis plane: four distinct vertices, all of
\* them corners of its bounding box
IsRectangle(poly) ==
    LET n == poly.plane.normal
    IN  /\ Cardinality({k \in Axes : n[k] /= 0}) = 1
        /\ Len(poly.vertices) = 4
        /\ Cardinality(Range(poly.vertices)) = 4
        /\ \A i \in 1..4 : \A k \in Axes :
               poly.vertices[i][k] \in {MinCoord(poly, k), MaxCoord(poly, k)}
        /\ MinCoord(poly, AxisOf(n)) = MaxCoord(poly, AxisOf(n))

Facet(k, c, a, b, sgn) == [axis |-> k, c |-> c, a |-> a, b |-> b, s |-> sgn]

\* the unit squares a rectangle covers, facing the way its plane faces
Facets(poly) ==
    LET k == AxisOf(poly.plane.normal)
        o == Others(k)
    IN  {Facet(k, poly.vertices[1][k], a, b, poly.plane.normal[k]) :
            a \in MinCoord(poly, o[1])..(MaxCoord(poly, o[1]) - 1),
            b \in MinCoord(poly, o[2])..(MaxCoord(poly, o[2]) - 1)}

Unoriented(f) == [axis |-> f.axis, c |-> f.c, a |-> f.a, b |-> f.b]

FacetsOf(polys) == UNION {Facets(polys[i]) : i \in 1..Len(polys)}

\* no unit square is covered by two polygons of the list, whatever they face
NoOverlap(polys) ==
    \A i, j \in 1..Len(polys) :
        i < j => {Unoriented(f) : f \in Facets(polys[i])}
                 \cap {Unoriented(f) : f \in Facets(polys[j])} = {}

Cell(x, y, z) == [x |-> x, y |-> y, z |-> z]

\* the cell on the low side (d = -1) or on the high side (d = 0) of a facet
Beside(f, d) ==
    LET o == Others(f.axis)
    IN  [k \in Axes |-> IF k = f.axis THEN f.c + d ELSE IF k = o[1] THEN f.a ELSE f.b]

\* the facets of one cell
CellFacets(cell) ==
    UNION {LET o == Others(k)
           IN  {Facet(k, cell[k] + 1, cell[o[1]], cell[o[2]], 1),
                Facet(k, cell[k], cell[o[1]], cell[o[2]], -1)} : k \in Axes}

\* the outward-facing boundary of a set of cells
Boundary(cells) ==
    {f \in UNION {CellFacets(cell) : cell \in cells} :
        IF f.s = 1 THEN Beside(f, 0) \notin cells ELSE Beside(f, -1) \notin cells}

\* the polygon faces along x and the line through the cell centre towards +x
\* passes through it beyond the cell
CoversX(poly, cell) ==
    /\ poly.plane.normal.x /= 0
    /\ poly.vertices[1].x > cell.x
    /\ MinCoord(poly, "y") <= cell.y /\ cell.y < MaxCoord(poly, "y")
    /\ MinCoord(poly, "z") <= cell.z /\ cell.z < MaxCoord(poly, "z")

\* net number of surfaces left through on the way from the cell towards +x
Net(polys, cell) ==
    Cardinality({i \in 1..Len(polys) : CoversX(polys[i], cell) /\ polys[i].plane.normal.x > 0})
    - Cardinality({i \in 1..Len(polys) : CoversX(polys[i], cell) /\ polys[i].plane.normal.x < 0})

AllCoords(polys, k) ==
    UNION {{polys[i].vertices[j][k] : j \in 1..Len(polys[i].vertices)} : i \in 1..Len(polys)}

\* the cells between the least and the greatest coordinate of the polygons
CellsAround(polys) ==
    LET span(k) == {c \in GridLo..GridHi :
                       /\ \E m \in AllCoords(polys, k) : m <= c
                       /\ \E m \in AllCoords(polys, k) : c < m}
    IN  {Cell(x, y, z) : x \in span("x"), y \in span("y"), z \in span("z")}

\* the cells a list of polygons encloses
Enclosed(polys) == {cell \in CellsAround(polys) : Net(polys, cell) = 1}

\* every coordinate of the polygons is on the grid
OnGrid(polys) == \A k \in Axes : AllCoords(polys, k) \subseteq GridLo..GridHi

\* the polygons are rectangles that cover the outward boundary of the cells,
\* every unit square of it once, and nothing else
Bounds(polys, cells) ==
    /\ OnGrid(polys)
    /\ \A i \in 1..Len(polys) : IsRectangle(polys[i])
    /\ FacetsOf(polys) = Boundary(cells)
    /\ NoOverlap(polys)

BoxCells(lo, hi) ==
    {Cell(x, y, z) : x \in lo.x..(hi.x - 1), y \in lo.y..(hi.y - 1), z \in lo.z..(hi.z - 1)}

(***************************************************************************)
(* Boolean operations on the bounded set of solids (specification Spec)    *)
(***************************************************************************)
\* createBooleanGeometry hands the operator the transformed geometry of both
\* operands; the operands are chosen once
Load ==
    \E A \in Solids, B \in Solids, c \in Colors :
        /\ geo1 = Null
        /\ geo1' = transformedGeometry(A)
        /\ geo2' = transformedGeometry(setColor(B, c))
        /\ op' = "none"
        /\ result' = Null
        /\ UNCHANGED <<bisectVars, treeVars, heapVars, order, call, sceneVars>>

DoUnion ==
    /\ geo1 /= Null
    /\ op' = "Union"
    /\ result' = Union(geo1, geo2)
    /\ UNCHANGED <<geo1, geo2, bisectVars, treeVars, heapVars, order, call, sceneVars>>

DoIntersect ==
    /\ geo1 /= Null
    /\ op' = "Intersect"
    /\ result' = Intersect(geo1, geo2)
    /\ UNCHANGED <<geo1, geo2, bisectVars, treeVars, heapVars, order, call, sceneVars>>

DoSubtract ==
    /\ geo1 /= Null
    /\ op' = "Subtract"
    /\ result' = Subtract(geo1, geo2)
    /\ UNCHANGED <<geo1, geo2, bisectVars, treeVars, heapVars, order, call, sceneVars>>

Init ==
    /\ front = <<>> /\ samePlane = <<>> /\ behind = <<>> /\ reversePlane = <<>>
    /\ lastCall = Null
    /\ tree = Null /\ trimIn = <<>> /\ trimOut = <<>>
    /\ geo1 = Null /\ geo2 = Null /\ op = "none" /\ result = Null
    /\ heap = <<>> /\ roots = <<NoNode, NoNode>> /\ calls = <<>>
    /\ call = Null
    /\ meshes = <<>> /\ geometry = <<>> /\ sceneList = <<>> /\ event = Null /\ MeshIDs = 0
    /\ selected = NoMesh /\ picked = NoMesh /\ boolGeo1 = NoMesh /\ boolGeo2 = NoMesh
    /\ order = Null

Next == Load \/ DoUnion \/ DoIntersect \/ DoSubtract

Spec == Init /\ [][Next]_vars

(***************************************************************************)
(* Claims about the boolean operators                                      *)
(***************************************************************************)
\* the two cubes of the concrete scenario
Cube1 == transformedGeometry(Cube(Vector(0, 0, 0), Vector(1, 1, 1), "blue"))
Cube2(c) == transformedGeometry(Cube(Vector(1, 0, 0), Vector(1, 1, 1), c))

Scenario(operator) == op = operator /\ geo1 = Cube1 /\ \E c \in Colors : geo2 = Cube2(c)

\* the polygons of the list that lie in the plane x = c
InPlaneX(polys, c) ==
    {i \in 1..Len(polys) : polys[i].plane.normal.x /= 0 /\ polys[i].vertices[1].x = c}

\* C1: Intersect of the cube at the origin and the cube translated by (1,0,0)
\* is exactly the box [0,1]x[-1,1]x[-1,1]: its polygons cover the six faces of
\* the box, each facing outward, and nothing else.
C1_IntersectIsBox ==
    Scenario("Intersect") =>
        Bounds(result.polygons, BoxCells(Vector(0, -1, -1), Vector(1, 1, 1)))

C1_Witness ==
    /\ Scenario("Intersect")
    /\ Len(result.polygons) = 6
    /\ Cardinality({result.polygons[i].plane : i \in 1..6}) = 6

\* C2 as claimed: Union of the two cubes is a closed solid of exactly 10
\* polygons, none of them in the plane x = 0 or x = 1, no two of them covering
\* the same surface region.
C2_UnionHasTenPolygons ==
    Scenario("Union") =>
        /\ Len(result.polygons) = 10
        /\ Bounds(result.polygons, Enclosed(result.polygons))
        /\ InPlaneX(result.polygons, 0) = {} /\ InPlaneX(result.polygons, 1) = {}

\* C2 as amended: Union of the two cubes is a closed solid of exactly 12
\* polygons (bounding the box [-1,2]x[-1,1]x[-1,1]), none of them in the plane
\* x = 0 or x = 1, no two of them covering the same surface region.
C2_UnionHasTwelvePolygons ==
    Scenario("Union") =>
        /\ Len(result.polygons) = 12
        /\ Bounds(result.polygons, Enclosed(result.polygons))
        /\ Enclosed(result.polygons) = BoxCells(Vector(-1, -1, -1), Vector(2, 1, 1))
        /\ InPlaneX(result.polygons, 0) = {} /\ InPlaneX(result.polygons, 1) = {}

C2_Witness ==
    /\ Scenario("Union")
    /\ Len(result.polygons) > 6
    /\ Enclosed(result.polygons) /= {}

\* C3: Subtract(cube1, cube2) is cube1 with the slab [0,1]x[-1,1]x[-1,1]
\* removed: a closed surface bounding exactly cube1 minus cube2, whose cut face
\* at x = 0 faces +x.
C3_SubtractRemovesSlab ==
    Scenario("Subtract") =>
        /\ Bounds(result.polygons, BoxCells(Vector(-1, -1, -1), Vector(0, 1, 1)))
        /\ InPlaneX(result.polygons, 0) /= {}
        /\ \A i \in InPlaneX(result.polygons, 0) :
               result.polygons[i].plane.normal = Vector(1, 0, 0)

C3_Witness ==
    /\ Scenario("Subtract")
    /\ \E i \in 1..Len(result.polygons) :
           /\ result.polygons[i].vertices[1].x = 0
           /\ result.polygons[i].plane.normal.x /= 0

\* the vertex lists of a geometry, colors left aside
Shape(geo) == [i \in 1..Len(geo.polygons) |-> geo.polygons[i].vertices]

\* C4: Union(A, A) encloses the volume of A and has no duplicated coincident
\* faces: every surface region of A is covered by exactly one polygon of the
\* result.
C4_UnionIdempotent ==
    (op = "Union" /\ Shape(geo1) = Shape(geo2)) =>
        /\ Enclosed(result.polygons) = Enclosed(geo1.polygons)
        /\ Bounds(result.polygons, Enclosed(geo1.polygons))

C4_Witness ==
    /\ op = "Union" /\ Shape(geo1) = Shape(geo2)
    /\ Len(result.polygons) = Len(geo1.polygons)
    /\ Enclosed(geo1.polygons) /= {}

\* C5: the volume enclosed by Intersect(A, B) and the volume enclosed by
\* Subtract(A, B) together are exactly the volume of A, and they do not
\* overlap; each of the two results is a closed surface around its volume.
C5_IntersectPlusSubtract ==
    op \in {"Intersect", "Subtract"} =>
        LET other == IF op = "Intersect" THEN Subtract(geo1, geo2)
                     ELSE Intersect(geo1, geo2)
            here == Enclosed(result.polygons)
            there == Enclosed(other.polygons)
        IN  /\ here \cup there = Enclosed(geo1.polygons)
            /\ here \cap there = {}
            /\ Bounds(result.polygons, here)

\* overlapping operands that share coplanar faces, both parts non-empty
C5_Witness ==
    /\ Scenario("Intersect")
    /\ Enclosed(result.polygons) /= {}
    /\ Enclosed(Subtract(geo1, geo2).polygons) /= {}

(***************************************************************************)
(* One call of bisect on the bounded set of polygons and planes            *)
(* (specification SpecBisect)                                              *)
(***************************************************************************)
\* shapes are scaled by 1..MaxPolySize; planes are at 0..MaxPlaneCoord
MaxPolySize == 2
MaxPlaneCoord == 3

\* convex outlines in counter-clockwise order, edges along the axes or diagonal
Outlines(n) ==
    {<<<<0, 0>>, <<2 * n, 0>>, <<2 * n, 2 * n>>, <<0, 2 * n>>>>,
     <<<<0, 0>>, <<2 * n, 0>>, <<0, 2 * n>>>>,
     <<<<n, 0>>, <<2 * n, n>>, <<n, 2 * n>>, <<0, n>>>>,
     <<<<n, 0>>, <<2 * n, 0>>, <<3 * n, n>>, <<2 * n, 2 * n>>, <<n, 2 * n>>, <<0, n>>>>}

\* the outline placed in the plane k = c
Lift(outline, k, c) ==
    LET o == Others(k)
    IN  [i \in 1..Len(outline) |->
            [j \in Axes |-> IF j = k THEN c ELSE IF j = o[1] THEN outline[i][1]
                                                ELSE outline[i][2]]]

BisectPolygons ==
    UNION {{Polygon(Lift(outline, k, 1), "blue"),
            Polygon(Reverse(Lift(outline, k, 1)), "orange")} :
           outline \in UNION {Outlines(n) : n \in 1..MaxPolySize}, k \in Axes}

AxisVector(k, sgn) == [j \in Axes |-> IF j = k THEN sgn ELSE 0]

BisectPlanes ==
    {Plane(AxisVector(k, sgn), -sgn * c) : k \in Axes, sgn \in {1, -1}, c \in 0..MaxPlaneCoord}

\* a polygon an output array may hold before the call
OldPolygon == Polygon(Lift(<<<<0, 0>>, <<1, 0>>, <<0, 1>>>>, "z", 0), "orange")

InitBisect ==
    /\ \E pre \in {<<>>, <<OldPolygon>>} :
           front = pre /\ samePlane = pre /\ behind = pre /\ reversePlane = pre
    /\ lastCall = Null
    /\ tree = Null /\ trimIn = <<>> /\ trimOut = <<>>
    /\ geo1 = Null /\ geo2 = Null /\ op = "none" /\ result = Null
    /\ heap = <<>> /\ roots = <<NoNode, NoNode>> /\ calls = <<>>
    /\ call = Null
    /\ meshes = <<>> /\ geometry = <<>> /\ sceneList = <<>> /\ event = Null /\ MeshIDs = 0
    /\ selected = NoMesh /\ picked = NoMesh /\ boolGeo1 = NoMesh /\ boolGeo2 = NoMesh
    /\ order = Null

\* plane.bisect(polygon, front, samePlane, behind, reversePlane) with four
\* distinct arrays
BisectCall ==
    \E pl \in BisectPlanes, polygon \in BisectPolygons :
        LET pushes == bisect(pl, polygon)
        IN  /\ lastCall = Null
            /\ front' = front \o Pushed(pushes, {"front"})
            /\ samePlane' = samePlane \o Pushed(pushes, {"samePlane"})
            /\ behind' = behind \o Pushed(pushes, {"behind"})
            /\ reversePlane' = reversePlane \o Pushed(pushes, {"reversePlane"})
            /\ lastCall' = [plane |-> pl, polygon |-> polygon,
                            before |-> [front |-> front, samePlane |-> samePlane,
                                        behind |-> behind, reversePlane |-> reversePlane]]
            /\ UNCHANGED <<treeVars, boolVars, heapVars, order, call, sceneVars>>

NextBisect == BisectCall

SpecBisect == InitBisect /\ [][NextBisect]_vars

\* what the call appended to an array
Appended(array, before) == SubSeq(array, Len(before) + 1, Len(array))

\* the call removed nothing from the four arrays
KeptAll ==
    /\ SubSeq(front, 1, Len(lastCall.before.front)) = lastCall.before.front
    /\ SubSeq(samePlane, 1, Len(lastCall.before.samePlane)) = lastCall.before.samePlane
    /\ SubSeq(behind, 1, Len(lastCall.before.behind)) = lastCall.before.behind
    /\ SubSeq(reversePlane, 1, Len(lastCall.before.reversePlane)) = lastCall.before.reversePlane

AllOnPlane(pl, polygon) ==
    \A i \in 1..Len(polygon.vertices) :
        LET d == dot(pl.normal, polygon.vertices[i]) + pl.p
        IN  d * EpsDen <= EpsNum /\ d * EpsDen >= -EpsNum

\* C8: bisect of a polygon whose vertices all classify as coplanar appends
\* that whole polygon, unsplit, to samePlane when the plane normal and the
\* polygon normal have positive dot product and to reversePlane otherwise;
\* front and behind receive nothing.
C8_CoplanarRouting ==
    (lastCall /= Null /\ AllOnPlane(lastCall.plane, lastCall.polygon)) =>
        LET same == dot(lastCall.plane.normal, lastCall.polygon.plane.normal) > 0
        IN  /\ KeptAll
            /\ Appended(samePlane, lastCall.before.samePlane)
                   = (IF same THEN <<lastCall.polygon>> ELSE <<>>)
            /\ Appended(reversePlane, lastCall.before.reversePlane)
                   = (IF same THEN <<>> ELSE <<lastCall.polygon>>)
            /\ Appended(front, lastCall.before.front) = <<>>
            /\ Appended(behind, lastCall.before.behind) = <<>>

C8_Witness ==
    /\ lastCall /= Null
    /\ AllOnPlane(lastCall.plane, lastCall.polygon)
    /\ Len(reversePlane) = 2
    /\ reversePlane[2] = lastCall.polygon

\* twice the vector area of a polygon: the sum of the cross products of
\* consecutive vertices
RECURSIVE CrossSum(_, _)
CrossSum(vs, i) ==
    IF i > Len(vs) THEN Vector(0, 0, 0)
    ELSE plus(cross(vs[i], vs[(i % Len(vs)) + 1]), CrossSum(vs, i + 1))

Area2(polygon) == CrossSum(polygon.vertices, 1)

\* the point lies on the segment from a to b
OnSegment(v, a, b) ==
    /\ cross(minus(v, a), minus(b, a)) = Vector(0, 0, 0)
    /\ dot(minus(v, a), minus(b, a)) >= 0
    /\ dot(minus(v, b), minus(a, b)) >= 0

\* every vertex of the fragment lies on the outline of the polygon
OnOutline(fragment, polygon) ==
    \A i \in 1..Len(fragment.vertices) :
        \E j \in 1..Len(polygon.vertices) :
            OnSegment(fragment.vertices[i], polygon.vertices[j],
                      polygon.vertices[(j % Len(polygon.vertices)) + 1])

\* the fragment turns the same way as the polygon at each of its vertices
ConvexLike(fragment, polygon) ==
    \A i \in 1..Len(fragment.vertices) :
        LET n == Len(fragment.vertices)
            a == fragment.vertices[i]
            b == fragment.vertices[(i % n) + 1]
            c == fragment.vertices[((i + 1) % n) + 1]
        IN  dot(cross(minus(b, a), minus(c, b)), Area2(polygon)) >= 0

SplitHappened ==
    /\ lastCall /= Null
    /\ Appended(front, lastCall.before.front) /= <<>>
    /\ Appended(behind, lastCall.before.behind) /= <<>>

\* C9: where bisect splits the polygon, the fragments appended to front and
\* behind together cover exactly the original polygon: their areas sum to the
\* original area, the front fragment has no vertex classified back, the behind
\* fragment has no vertex classified front, and the two meet only along the
\* cut.
C9_SplitCoversPolygon ==
    SplitHappened =>
        LET f == Appended(front, lastCall.before.front)
            b == Appended(behind, lastCall.before.behind)
            pl == lastCall.plane
        IN  /\ Len(f) = 1 /\ Len(b) = 1
            /\ plus(Area2(f[1]), Area2(b[1])) = Area2(lastCall.polygon)
            /\ OnOutline(f[1], lastCall.polygon) /\ OnOutline(b[1], lastCall.polygon)
            /\ ConvexLike(f[1], lastCall.polygon) /\ ConvexLike(b[1], lastCall.polygon)
            /\ \A v \in Range(f[1].vertices) : Distance(pl, v) * EpsDen >= -EpsNum
            /\ \A v \in Range(b[1].vertices) : Distance(pl, v) * EpsDen <= EpsNum
            /\ \A v \in Range(f[1].vertices) \cap Range(b[1].vertices) :
                   Distance(pl, v) * EpsDen <= EpsNum /\ Distance(pl, v) * EpsDen >= -EpsNum
            /\ Cardinality(Range(f[1].vertices) \cap Range(b[1].vertices)) = 2

\* a split of a six-sided polygon through two of its edges
C9_Witness ==
    /\ SplitHappened
    /\ Len(lastCall.polygon.vertices) = 6
    /\ Len(front[Len(front)].vertices) + Len(behind[Len(behind)].vertices) = 10

(***************************************************************************)
(* trim of bounded polygon lists against the tree of a closed solid        *)
(* (specification SpecTrim)                                                *)
(***************************************************************************)
\* the rectangles handed to trim have corners in -2..MaxTrimCoord and sides of
\* at most MaxTrimSide
MaxTrimCoord == 2
MaxTrimSide == 2

TrimCoords == (-2)..MaxTrimCoord

Intervals == {<<lo, hi>> \in TrimCoords \X TrimCoords : lo < hi /\ hi - lo <= MaxTrimSide}

RectOutline(ia, ib) ==
    <<<<ia[1], ib[1]>>, <<ia[2], ib[1]>>, <<ia[2], ib[2]>>, <<ia[1], ib[2]>>>>

TrimPolygons ==
    UNION {{Polygon(Lift(RectOutline(ia, ib), k, c), "blue"),
            Polygon(Reverse(Lift(RectOutline(ia, ib), k, c)), "orange")} :
           ia \in Intervals, ib \in Intervals, k \in Axes, c \in TrimCoords}

TrimLists == {<<r>> : r \in TrimPolygons} \cup {<<r, PolygonFlip(r)>> : r \in TrimPolygons}

\* closed solids: the cube, a shifted cube, and two solids that are not
\* convex, returned by earlier boolean operations
CornerCube == transformedGeometry(Cube(Vector(1, 1, 0), Vector(1, 1, 1), "orange"))

TrimSolids == {Cube1, CornerCube, Union(Cube1, CornerCube), Subtract(Cube1, CornerCube)}

Build ==
    \E S \in TrimSolids :
        /\ tree = Null
        /\ tree' = Partition(S.polygons, Null)
        /\ UNCHANGED <<trimIn, trimOut, bisectVars, boolVars, heapVars, order, call, sceneVars>>

TrimCall ==
    \E polys \in TrimLists :
        /\ tree /= Null
        /\ trimIn = <<>>
        /\ trimIn' = polys
        /\ trimOut' = trim(tree, polys)
        /\ UNCHANGED <<tree, bisectVars, boolVars, heapVars, order, call, sceneVars>>

NextTrim == Build \/ TrimCall

SpecTrim == Init /\ [][NextTrim]_vars

\* the facet has the solid on both sides / on neither side
StrictlyInside(f, cells) == Beside(f, -1) \in cells /\ Beside(f, 0) \in cells
StrictlyOutside(f, cells) == Beside(f, -1) \notin cells /\ Beside(f, 0) \notin cells

\* C6: for a tree built by Partition from a closed solid S, trim returns
\* exactly the parts of the input that lie outside S: no returned fragment has
\* a point strictly inside S, every part of an input polygon strictly outside
\* S is returned, and nothing is returned that was not in the input.
C6_TrimKeepsOutside ==
    trimIn /= <<>> =>
        LET S == Enclosed(concatPolys(tree))
        IN  /\ \A i \in 1..Len(trimOut) : IsRectangle(trimOut[i])
            /\ FacetsOf(trimOut) \subseteq FacetsOf(trimIn)
            /\ \A f \in FacetsOf(trimOut) : ~StrictlyInside(f, S)
            /\ \A f \in FacetsOf(trimIn) : StrictlyOutside(f, S) => f \in FacetsOf(trimOut)

\* a rectangle that straddles the surface of a solid that is not convex: part
\* of it is cut away and part of it is returned
C6_Witness ==
    /\ trimIn /= <<>>
    /\ Cardinality(Enclosed(concatPolys(tree))) = 6
    /\ \E f \in FacetsOf(trimIn) : StrictlyInside(f, Enclosed(concatPolys(tree)))
    /\ \E f \in FacetsOf(trimOut) : StrictlyOutside(f, Enclosed(concatPolys(tree)))

CoplanarInputs ==
    {i \in 1..Len(trimIn) : tree /= Null /\ AllOnPlane(tree.hyperPlane, trimIn[i])}

\* C7 as claimed: in trim, a polygon wholly coplanar with the node's
\* hyperPlane is put in the inside bucket whichever way it faces, never in the
\* outside bucket.
C7_CoplanarAlwaysInside ==
    \A i \in CoplanarInputs :
        /\ trimIn[i] \in Range(InsideBucket(tree, trimIn))
        /\ trimIn[i] \notin Range(OutBucket(tree, trimIn))

\* C7 as amended: in trim, a polygon wholly coplanar with the node's
\* hyperPlane is put in the outside bucket when it faces the same way as the
\* hyperPlane and in the inside bucket when it faces the opposite way, and in
\* no other bucket.
C7_CoplanarByFacing ==
    \A i \in CoplanarInputs :
        IF dot(tree.hyperPlane.normal, trimIn[i].plane.normal) > 0
        THEN /\ trimIn[i] \in Range(OutBucket(tree, trimIn))
             /\ trimIn[i] \notin Range(InsideBucket(tree, trimIn))
        ELSE /\ trimIn[i] \in Range(InsideBucket(tree, trimIn))
             /\ trimIn[i] \notin Range(OutBucket(tree, trimIn))

\* a list holding a coplanar polygon facing each way
C7_Witness ==
    /\ Cardinality(CoplanarInputs) = 2
    /\ Len(OutBucket(tree, trimIn)) = 1
    /\ Len(InsideBucket(tree, trimIn)) = 1

(***************************************************************************)
(* Claim about the color payload                                           *)
(***************************************************************************)
UnorientedFacets(poly) == {Unoriented(f) : f \in Facets(poly)}

\* the polygon is a part of an input polygon of the same color
DerivedFrom(poly, inputs) ==
    \E q \in inputs : q.color = poly.color /\ UnorientedFacets(poly) \subseteq UnorientedFacets(q)

\* C10: the color payload is propagated unchanged: every polygon produced by
\* bisect, Polygon.flip, Polygon.clone, BSPNode.flip, trim and Partition, and
\* so every polygon of the result of Union, Intersect or Subtract, carries the
\* color of the input polygon it was derived from.
C10_ColorPropagated ==
    op /= "none" =>
        LET in1 == Range(geo1.polygons)
            in2 == Range(geo2.polygons)
            tree1 == Partition(geo1.polygons, Null)
            tree2 == Partition(geo2.polygons, Null)
        IN  /\ \A i \in 1..Len(result.polygons) : DerivedFrom(result.polygons[i], in1 \cup in2)
            /\ \A q \in in1 \cup in2 :
                   PolygonFlip(q).color = q.color /\ PolygonClone(q).color = q.color
            /\ \A q \in in1 : \A h \in in2 :
                   \A k \in 1..Len(bisect(h.plane, q)) : bisect(h.plane, q)[k].poly.color = q.color
            /\ \A r \in Range(concatPolys(tree1)) : DerivedFrom(r, in1)
            /\ \A r \in Range(concatPolys(flip(tree2))) : DerivedFrom(r, in2)
            /\ \A r \in Range(trim(tree2, geo1.polygons)) : DerivedFrom(r, in1)

\* a result holding a fragment of a blue polygon and a fragment of an orange one
C10_Witness ==
    /\ op = "Union"
    /\ \E i \in 1..Len(result.polygons) :
           result.polygons[i].color = "blue" /\ result.polygons[i] \notin Range(geo1.polygons)
    /\ \E i \in 1..Len(result.polygons) :
           result.polygons[i].color = "orange" /\ result.polygons[i] \notin Range(geo2.polygons)

(***************************************************************************)
(* BSPNode objects.  Polygons, planes and vectors are never written after  *)
(* construction by the tree operations, so they are values; a BSPNode and  *)
(* its polygons array are written in place (Partition, treeTrimSelf) and   *)
(* are objects of a heap: heap[id] holds the fields of node id, and front  *)
(* and behind hold the id of a child or NoNode.                            *)
(* (specification SpecTree)                                                *)
(***************************************************************************)
\* new BSPNode()
NewNode == [hyperPlane |-> Null, polygons |-> <<>>, front |-> NoNode, behind |-> NoNode]

\* the tree an object reference denotes
RECURSIVE Deref(_, _)
Deref(h, id) ==
    IF id = NoNode THEN Null
    ELSE [hyperPlane |-> h[id].hyperPlane,
          polygons |-> h[id].polygons,
          front |-> Deref(h, h[id].front),
          behind |-> Deref(h, h[id].behind)]

\* the objects reachable from a reference
RECURSIVE Nodes(_, _)
Nodes(h, id) ==
    IF id = NoNode THEN {}
    ELSE {id} \cup Nodes(h, h[id].front) \cup Nodes(h, h[id].behind)

\* the fields of tree t written to node id and the nodes below it; a node
\* that does not exist yet (id = NoNode) is made by new BSPNode()
RECURSIVE Put(_, _, _)
Put(h, id, t) ==
    IF t = Null THEN [heap |-> h, ret |-> id]
    ELSE LET root == IF id /= NoNode THEN id ELSE Len(h) + 1
             h0 == IF id /= NoNode THEN h ELSE Append(h, NewNode)
             f == Put(h0, h0[root].front, t.front)
             b == Put(f.heap, h0[root].behind, t.behind)
         IN  [heap |-> [b.heap EXCEPT ![root] =
                           [hyperPlane |-> t.hyperPlane, polygons |-> t.polygons,
                            front |-> f.ret, behind |-> b.ret]],
              ret |-> root]

\* BSPNode.Partition(polygons, tree) on objects: an existing tree is written
\* in place, missing nodes are made, and an empty list returns at once
HeapPartition(h, polygons, id) ==
    LET t == Partition(polygons, Deref(h, id))
    IN  IF t = Null THEN [heap |-> h, ret |-> NoNode] ELSE Put(h, id, t)

\* this.treeTrimSelf(tree) on objects: the polygons field of every node of
\* this is assigned, no node is made
HeapTreeTrimSelf(h, this, id) ==
    Put(h, this, treeTrimSelf(Deref(h, this), Deref(h, id))).heap

\* clone() on objects: every node of the copy is made by new BSPNode()
HeapClone(h, id) == Put(h, NoNode, clone(Deref(h, id)))

\* flip that works on the nodes of this instead of a copy
HeapFlipInPlace(h, id) == Put(h, id, flip(Deref(h, id)))

\* flip() on objects: the root is this.clone() and the children are the
\* results of flip() on the children, all of them new nodes
HeapFlip(h, id) == Put(h, NoNode, flip(Deref(h, id)))

\* concatPolys() on objects: the list is built from copies of the nodes'
\* arrays and no node is written
HeapConcatPolys(h, id) == [heap |-> h, ret |-> concatPolys(Deref(h, id))]

\* at most MaxCalls calls are made in a row
MaxCalls == 3

\* two rectangles in the plane z = 0 facing opposite ways, and one that
\* crosses that plane
Sheets ==
    LET r == Polygon(Lift(RectOutline(<<-1, 1>>, <<-1, 1>>), "z", 0), "blue")
        w == Polygon(Lift(RectOutline(<<-1, 1>>, <<-1, 1>>), "x", 0), "orange")
    IN  <<r, PolygonFlip(r), w>>

\* polygon lists handed to Partition: a convex solid, two solids that are
\* not convex, and loose rectangles
TreeLists ==
    {Cube1.polygons, Union(Cube1, CornerCube).polygons,
     Subtract(Cube1, CornerCube).polygons, Sheets}

TreeVariables == 1..2

Call(name, this, arg, polys, ret) ==
    [op |-> name, this |-> this, arg |-> arg, polys |-> polys, ret |-> ret,
     heap |-> heap, roots |-> roots]

\* another call can follow: the bound is not reached, and the trees have not
\* been read out by concatPolys, the last call made on a tree
CanCall ==
    /\ Len(calls) < MaxCalls
    /\ IF calls = <<>> THEN TRUE ELSE calls[Len(calls)].op /= "concatPolys"

\* var roots[i] = BSPNode.Partition(polys), for a variable not yet assigned
PartitionNew ==
    \E i \in TreeVariables, polys \in TreeLists \cup {<<>>} :
        LET r == HeapPartition(heap, polys, NoNode)
        IN  /\ CanCall
            /\ roots[i] = NoNode
            /\ heap' = r.heap
            /\ roots' = [roots EXCEPT ![i] = r.ret]
            /\ calls' = Append(calls, Call("Partition", NoNode, NoNode, polys, r.ret))
            /\ UNCHANGED <<bisectVars, treeVars, boolVars, order, call, sceneVars>>

\* BSPNode.Partition(polys, roots[i])
PartitionExtend ==
    \E i \in TreeVariables, polys \in TreeLists \cup {<<>>} :
        LET r == HeapPartition(heap, polys, roots[i])
        IN  /\ CanCall
            /\ roots[i] /= NoNode
            /\ heap' = r.heap
            /\ calls' = Append(calls, Call("Partition", NoNode, roots[i], polys, r.ret))
            /\ UNCHANGED <<roots, bisectVars, treeVars, boolVars, order, call, sceneVars>>

\* roots[i].treeTrimSelf(roots[j])
TreeTrimSelf ==
    \E i \in TreeVariables, j \in TreeVariables :
        /\ CanCall
        /\ i /= j /\ roots[i] /= NoNode /\ roots[j] /= NoNode
        /\ heap' = HeapTreeTrimSelf(heap, roots[i], roots[j])
        /\ calls' = Append(calls, Call("treeTrimSelf", roots[i], roots[j], <<>>, NoNode))
        /\ UNCHANGED <<roots, bisectVars, treeVars, boolVars, order, call, sceneVars>>

\* roots[j] = roots[i].flip()
Flip ==
    \E i \in TreeVariables, j \in TreeVariables :
        LET r == HeapFlip(heap, roots[i])
        IN  /\ CanCall
            /\ roots[i] /= NoNode
            /\ heap' = r.heap
            /\ roots' = [roots EXCEPT ![j] = r.ret]
            /\ calls' = Append(calls, Call("flip", roots[i], NoNode, <<>>, r.ret))
            /\ UNCHANGED <<bisectVars, treeVars, boolVars, order, call, sceneVars>>

\* roots[j] = roots[i].clone()
Clone ==
    \E i \in TreeVariables, j \in TreeVariables :
        LET r == HeapClone(heap, roots[i])
        IN  /\ CanCall
            /\ roots[i] /= NoNode
            /\ heap' = r.heap
            /\ roots' = [roots EXCEPT ![j] = r.ret]
            /\ calls' = Append(calls, Call("clone", roots[i], NoNode, <<>>, r.ret))
            /\ UNCHANGED <<bisectVars, treeVars, boolVars, order, call, sceneVars>>

\* roots[i].concatPolys(); the record of the call holds the list returned
ConcatPolys ==
    \E i \in TreeVariables :
        LET r == HeapConcatPolys(heap, roots[i])
        IN  /\ CanCall
            /\ roots[i] /= NoNode
            /\ heap' = r.heap
            /\ calls' = Append(calls, Call("concatPolys", roots[i], NoNode, r.ret, NoNode))
            /\ UNCHANGED <<roots, bisectVars, treeVars, boolVars, order, call, sceneVars>>

NextTree == PartitionNew \/ PartitionExtend \/ TreeTrimSelf \/ Flip \/ Clone \/ ConcatPolys

SpecTree == Init /\ [][NextTree]_vars

(***************************************************************************)
(* Claims about the trees                                                  *)
(***************************************************************************)
\* the nodes of the trees the variables refer to
LiveNodes == UNION {Nodes(heap, roots[i]) : i \in TreeVariables}

LastCall == calls[Len(calls)]

Extended == {k \in 1..Len(calls) : calls[k].op = "Partition" /\ calls[k].arg /= NoNode
                                      /\ calls[k].polys /= <<>>}

OnHyperPlane(n) ==
    \A k \in 1..Len(heap[n].polygons) : isCoplanar(heap[n].hyperPlane, heap[n].polygons[k])

\* C11: after any sequence of Partition (new tree or existing tree),
\* treeTrimSelf, flip and clone, every node that has a hyperPlane holds only
\* polygons coplanar with that hyperPlane
C11_PolygonsOnHyperPlane ==
    \A n \in LiveNodes : heap[n].hyperPlane /= Null => OnHyperPlane(n)

\* the trees that Partition was called on as an existing tree with a list
\* that is not empty, and their flips and clones, after the first k calls
RECURSIVE ExtendedTrees(_)
ExtendedTrees(k) ==
    IF k = 0 THEN {}
    ELSE LET c == calls[k]
             T == ExtendedTrees(k - 1)
         IN  IF c.op = "Partition" /\ c.arg /= NoNode /\ c.polys /= <<>> THEN T \cup {c.arg}
             ELSE IF c.op \in {"flip", "clone"} /\ c.this \in T THEN T \cup {c.ret}
             ELSE T

\* the trees made by Partition without an existing tree and what treeTrimSelf,
\* flip and clone made of them
NeverExtended == {i \in TreeVariables : roots[i] /= NoNode
                                           /\ roots[i] \notin ExtendedTrees(Len(calls))}

Below(t) == IF t = Null THEN <<>> ELSE concatPolys(t)

NoVertex(pl, polys, where) ==
    \A k \in 1..Len(polys) :
        \A v \in 1..Len(polys[k].vertices) : Location(pl, polys[k].vertices[v]) /= where

RECURSIVE SidesKept(_)
SidesKept(t) ==
    \/ t = Null
    \/ /\ NoVertex(t.hyperPlane, Below(t.front), "back")
       /\ NoVertex(t.hyperPlane, Below(t.behind), "front")
       /\ SidesKept(t.front)
       /\ SidesKept(t.behind)

\* C12: in a tree returned by Partition called without an existing tree, and
\* in every tree obtained from it by treeTrimSelf, flip or clone, the front
\* subtree of each node holds no polygon with a vertex behind the node's
\* hyperPlane and the behind subtree none with a vertex in front of it
C12_SubtreesOnTheirSide ==
    \A i \in NeverExtended : SidesKept(Deref(heap, roots[i]))

\* a tree with polygons on both sides of its root was trimmed by another tree
\* and kept polygons on both sides
C12_Witness ==
    /\ calls /= <<>>
    /\ LastCall.op = "treeTrimSelf"
    /\ \E i \in NeverExtended :
          /\ roots[i] = LastCall.this
          /\ Below(Deref(heap, roots[i]).front) /= <<>>
          /\ Below(Deref(heap, roots[i]).behind) /= <<>>
          /\ Deref(heap, roots[i]) /= Deref(LastCall.heap, roots[i])

\* C13: Partition with an existing tree leaves the hyperPlane of every node
\* that existed before the call as it was
C13_ExistingPlanesKept ==
    \A k \in Extended :
        \A n \in Nodes(calls[k].heap, calls[k].arg) :
            LET after == IF k = Len(calls) THEN heap ELSE calls[k + 1].heap
            IN  after[n].hyperPlane = calls[k].heap[n].hyperPlane

IsNewTree(c) == c.op = "Partition" /\ c.arg = NoNode /\ c.polys /= <<>>

CoplanarInputs14(c) ==
    {k \in 1..Len(c.polys) : isCoplanar(c.polys[1].plane, c.polys[k])}

\* C14: Partition on a non-empty list without an existing tree gives the
\* root the plane of the first polygon, stores the first polygon in the root,
\* and stores every input polygon coplanar with that plane, whichever way it
\* faces, in the root and in no child
C14_FirstPolygonIsRoot ==
    (calls /= <<>> /\ IsNewTree(LastCall)) =>
        LET c == LastCall
            root == Deref(heap, c.ret)
        IN  /\ c.ret /= NoNode
            /\ root.hyperPlane = c.polys[1].plane
            /\ c.polys[1] \in Range(root.polygons)
            /\ \A k \in CoplanarInputs14(c) :
                  /\ c.polys[k] \in Range(root.polygons)
                  /\ c.polys[k] \notin Range(Below(root.front)) \cup Range(Below(root.behind))

\* the list held a polygon in the first polygon's plane that faces the other
\* way, and polygons for both children
C14_Witness ==
    /\ calls /= <<>> /\ IsNewTree(LastCall)
    /\ \E k \in CoplanarInputs14(LastCall) :
          dot(LastCall.polys[k].plane.normal, LastCall.polys[1].plane.normal) < 0
    /\ heap[LastCall.ret].front /= NoNode
    /\ heap[LastCall.ret].behind /= NoNode

IsEmptyCall(c) == c.op = "Partition" /\ c.polys = <<>>

\* C15: Partition on an empty list returns an absent result and changes no
\* node: an existing tree keeps its hyperPlanes, polygons and children
C15_EmptyListIsNoOp ==
    (calls /= <<>> /\ IsEmptyCall(LastCall)) =>
        /\ LastCall.ret = NoNode
        /\ heap = LastCall.heap
        /\ roots = LastCall.roots

\* the empty list was handed to Partition together with an existing tree
C15_Witness ==
    /\ calls /= <<>> /\ IsEmptyCall(LastCall)
    /\ LastCall.arg /= NoNode
    /\ Nodes(heap, LastCall.arg) /= {LastCall.arg}

\* the heap when call k returned
After(k) == IF k = Len(calls) THEN heap ELSE calls[k + 1].heap

\* the tree a call writes to
Target(c) == IF c.op = "Partition" THEN c.arg ELSE IF c.op = "treeTrimSelf" THEN c.this ELSE NoNode

RECURSIVE Mirror(_)
Mirror(t) ==
    IF t = Null THEN Null
    ELSE [hyperPlane |-> PlaneFlip(t.hyperPlane),
          polygons |-> [k \in 1..Len(t.polygons) |-> PolygonFlip(t.polygons[k])],
          front |-> Mirror(t.behind),
          behind |-> Mirror(t.front)]

Flips == {k \in 1..Len(calls) : calls[k].op = "flip"}

\* C16: flip returns a tree of new nodes in which every hyperPlane and every
\* polygon is the flipped one of the original and front and behind are
\* swapped at every level; the original is as it was, and stays so when
\* treeTrimSelf or Partition is later called on the flipped tree
C16_FlipIsACopy ==
    \A k \in Flips :
        LET c == calls[k]
            original == Nodes(c.heap, c.this)
        IN  /\ Deref(After(k), c.ret) = Mirror(Deref(c.heap, c.this))
            /\ Nodes(After(k), c.ret) \cap DOMAIN c.heap = {}
            /\ \A n \in original : After(k)[n] = c.heap[n]
            /\ \A m \in (k + 1)..Len(calls) :
                  Target(calls[m]) = c.ret =>
                      \A n \in original : After(m)[n] = calls[m].heap[n]

\* a tree was flipped into a second variable and the flipped tree was then
\* changed by Partition
C16_Witness ==
    /\ Len(calls) = 3
    /\ calls[2].op = "flip"
    /\ calls[3].op = "Partition" /\ calls[3].arg = calls[2].ret
    /\ roots[1] = calls[2].this /\ roots[2] = calls[2].ret
    /\ Deref(heap, roots[2]) /= Deref(calls[3].heap, roots[2])
    /\ Cardinality(Nodes(heap, roots[1])) > 2

\* the flips of a tree that an earlier flip returned
SecondFlips == {k \in Flips : k > 1 /\ calls[k - 1].op = "flip" /\ calls[k].this = calls[k - 1].ret}

PlanesOf(t) == {t.hyperPlane} \cup {t.polygons[k].plane : k \in 1..Len(t.polygons)}

\* C17: flipping twice restores the original: plane.flip().flip() has the
\* normal and p of plane, and tree.flip().flip() has the shape, hyperPlanes
\* and polygons (vertex order, plane, color) of tree at every node
C17_FlipTwiceRestores ==
    /\ \A n \in LiveNodes : \A pl \in PlanesOf(heap[n]) :
          /\ PlaneFlip(PlaneFlip(pl)).normal = pl.normal
          /\ PlaneFlip(PlaneFlip(pl)).p = pl.p
    /\ \A k \in SecondFlips :
          Deref(After(k), calls[k].ret) = Deref(calls[k - 1].heap, calls[k - 1].this)

\* a tree in which some node has both children
RECURSIVE Forked(_)
Forked(t) ==
    /\ t /= Null
    /\ \/ t.front /= Null /\ t.behind /= Null
       \/ Forked(t.front)
       \/ Forked(t.behind)

\* a tree with a node that has both children and with planes off the origin
\* was flipped twice
C17_Witness ==
    \E k \in SecondFlips :
        LET t == Deref(After(k), calls[k].ret)
        IN  /\ Forked(t)
            /\ t.hyperPlane.p /= 0
            /\ \E q \in Range(concatPolys(t)) : q.plane.p /= 0

Trims == {k \in 1..Len(calls) : calls[k].op = "treeTrimSelf"}

\* C18: this.treeTrimSelf(tree) replaces the polygons of every node of this
\* with tree.trim of the node's previous polygons and changes nothing else:
\* hyperPlanes and child links of this, every node of tree, and every other
\* node are as before, and no node is made
C18_TrimSelfFrame ==
    \A k \in Trims :
        LET c == calls[k]
            mine == Nodes(c.heap, c.this)
        IN  /\ DOMAIN After(k) = DOMAIN c.heap
            /\ \A n \in mine :
                  /\ After(k)[n].polygons = trim(Deref(c.heap, c.arg), c.heap[n].polygons)
                  /\ After(k)[n].hyperPlane = c.heap[n].hyperPlane
                  /\ After(k)[n].front = c.heap[n].front
                  /\ After(k)[n].behind = c.heap[n].behind
            /\ \A n \in DOMAIN c.heap \ mine : After(k)[n] = c.heap[n]

\* a tree lost polygons below its root to a tree of several nodes
C18_Witness ==
    \E k \in Trims :
        /\ Cardinality(Nodes(calls[k].heap, calls[k].arg)) > 2
        /\ \E n \in Nodes(calls[k].heap, calls[k].this) \ {calls[k].this} :
              /\ After(k)[n].polygons /= calls[k].heap[n].polygons
              /\ After(k)[n].polygons /= <<>>

(***************************************************************************)
(* Partition and concatPolys on one polygon list in two orders             *)
(* (specification SpecOrder)                                               *)
(***************************************************************************)
\* lists of up to MaxOrderLen loose rectangles
MaxOrderLen == 3

\* rectangles of side 2 around the origin: two in the plane z = 0 that face
\* opposite ways, one in each of the planes x = 0 and y = 0, which cross the
\* others, and one in the plane z = 1
OrderPool ==
    LET sq == RectOutline(<<-1, 1>>, <<-1, 1>>)
        a == Polygon(Lift(sq, "z", 0), "blue")
    IN  {a, PolygonFlip(a),
         Polygon(Lift(sq, "x", 0), "orange"),
         Polygon(Reverse(Lift(sq, "y", 0)), "blue"),
         Polygon(Lift(sq, "z", 1), "orange")}

\* the lists of n different polygons of the pool
OrderListsOf(n) ==
    {l \in [1..n -> OrderPool] : \A i, j \in 1..n : i /= j => l[i] /= l[j]}

Orders(n) == {p \in [1..n -> 1..n] : \A i, j \in 1..n : i /= j => p[i] /= p[j]}

Permuted(l, p) == [i \in 1..Len(l) |-> l[p[i]]]

\* a list and a permutation of it: loose rectangles in every order, and the
\* polygons of solids back to front
OrderInputs ==
    UNION {{<<l, Permuted(l, p)>> : l \in OrderListsOf(n), p \in Orders(n)} :
           n \in 1..MaxOrderLen}
    \cup {<<l, Reverse(l)>> : l \in TreeLists}

InitOrder ==
    /\ front = <<>> /\ samePlane = <<>> /\ behind = <<>> /\ reversePlane = <<>>
    /\ lastCall = Null
    /\ tree = Null /\ trimIn = <<>> /\ trimOut = <<>>
    /\ geo1 = Null /\ geo2 = Null /\ op = "none" /\ result = Null
    /\ heap = <<>> /\ roots = <<NoNode, NoNode>> /\ calls = <<>>
    /\ call = Null
    /\ meshes = <<>> /\ geometry = <<>> /\ sceneList = <<>> /\ event = Null /\ MeshIDs = 0
    /\ selected = NoMesh /\ picked = NoMesh /\ boolGeo1 = NoMesh /\ boolGeo2 = NoMesh
    /\ \E pair \in OrderInputs :
          order = [polys |-> pair[1], permuted |-> pair[2], done |-> FALSE,
                   tree1 |-> Null, tree2 |-> Null, flat1 |-> <<>>, flat2 |-> <<>>]

\* BSPNode.Partition(polys).toGeometry() for the list in both orders
PartitionBoth ==
    LET t1 == Partition(order.polys, Null)
        t2 == Partition(order.permuted, Null)
    IN  /\ ~order.done
        /\ order' = [order EXCEPT !.done = TRUE, !.tree1 = t1, !.tree2 = t2,
                                  !.flat1 = toGeometry(t1).polygons,
                                  !.flat2 = toGeometry(t2).polygons]
        /\ UNCHANGED <<bisectVars, treeVars, boolVars, heapVars, call, sceneVars>>

NextOrder == PartitionBoth

SpecOrder == InitOrder /\ [][NextOrder]_vars

\* a unit square together with the way it faces and the color it carries
Patches(poly) == {[facet |-> f, color |-> poly.color] : f \in Facets(poly)}

Covering(polys, patch) == Cardinality({i \in 1..Len(polys) : patch \in Patches(polys[i])})

\* both lists are rectangles that cover the same unit squares, facing the same
\* way, in the same color, the same number of times
SameSurface(a, b) ==
    /\ \A i \in 1..Len(a) : IsRectangle(a[i])
    /\ \A i \in 1..Len(b) : IsRectangle(b[i])
    /\ LET all == UNION {Patches(a[i]) : i \in 1..Len(a)}
                  \cup UNION {Patches(b[i]) : i \in 1..Len(b)}
       IN  \A patch \in all : Covering(a, patch) = Covering(b, patch)

RECURSIVE TotalVertices(_)
TotalVertices(polys) ==
    IF polys = <<>> THEN 0 ELSE Len(Head(polys).vertices) + TotalVertices(Tail(polys))

Occurrences(polys, q) == Cardinality({i \in 1..Len(polys) : polys[i] = q})

SameBag(a, b) == \A q \in Range(a) \cup Range(b) : Occurrences(a, q) = Occurrences(b, q)

\* C19 as stated: toGeometry() of Partition(polys) has the polygon count and
\* the total number of vertices of polys
C19_SameCounts ==
    order.done =>
        /\ Len(order.flat1) = Len(order.polys)
        /\ TotalVertices(order.flat1) = TotalVertices(order.polys)

\* C19, amended: toGeometry() of Partition(polys) covers the surface of polys,
\* with the same orientation and color; it has at least as many polygons and
\* vertices, and as many only when no polygon was split, in which case it
\* holds the polygons of polys themselves
C19_SameSurfaceMorePolygons ==
    order.done =>
        /\ SameSurface(order.flat1, order.polys)
        /\ Len(order.flat1) >= Len(order.polys)
        /\ TotalVertices(order.flat1) >= TotalVertices(order.polys)
        /\ (Len(order.flat1) = Len(order.polys)) <=> SameBag(order.flat1, order.polys)
        /\ (TotalVertices(order.flat1) = TotalVertices(order.polys))
               <=> SameBag(order.flat1, order.polys)

\* a polygon of the list crossed a hyperPlane and came back in two parts
C19_Witness ==
    /\ order.done
    /\ Len(order.flat1) > Len(order.polys)
    /\ order.tree1.front /= Null /\ order.tree1.behind /= Null

\* the shape of a tree: where it has children
RECURSIVE TreeShape(_)
TreeShape(t) ==
    IF t = Null THEN <<>>
    ELSE <<Len(t.polygons), TreeShape(t.front), TreeShape(t.behind)>>

\* C20: Partition followed by concatPolys yields the same geometry for every
\* order of the list: the flattened polygons of both trees cover the same
\* surface regions with the same orientation, even when the trees differ
C20_OrderKeepsGeometry ==
    order.done => SameSurface(order.flat1, order.flat2)

\* the two orders gave trees of different shapes and different numbers of
\* polygons
C20_Witness ==
    /\ order.done
    /\ TreeShape(order.tree1) /= TreeShape(order.tree2)
    /\ Len(order.flat1) /= Len(order.flat2)

(***************************************************************************)
(* One call of a boolean operator, statement by statement.  The call       *)
(* record holds the two arguments, the two local trees, the number of      *)
(* statements executed and the value returned or thrown.                   *)
(*                                                                         *)
(* A polygon record that carries the field obj stands for the Polygon      *)
(* object of that name: the records of the arguments carry it, a record    *)
(* built by new Polygon does not, and a write to an object (EXCEPT) keeps  *)
(* it.  An argument's polygon was written to exactly when a record with    *)
(* its name and other contents exists.                                     *)
(***************************************************************************)
Operators == {"Union", "Intersect", "Subtract"}

BodyOf(operation) ==
    CASE operation = "Union" -> UnionBody
      [] operation = "Intersect" -> IntersectBody
      [] operation = "Subtract" -> SubtractBody

\* the geometry with its polygons named <<name, 1>>, <<name, 2>>, ...
Tagged(geo, name) ==
    [geo EXCEPT !.polygons =
        [k \in 1..Len(geo.polygons) |->
            [vertices |-> geo.polygons[k].vertices, color |-> geo.polygons[k].color,
             plane |-> geo.polygons[k].plane, obj |-> <<name, k>>]]]

\* the operands of a first call: the first in the color of createCube, the
\* second recolored
CallSolids == {transformedGeometry(g) : g \in Solids}

Recolored(g) == setColor(g, "orange")

\* the operator is entered and builds its two trees; a missing tree throws at
\* the first statement of the body
EnterCall(operation, A, B, n) ==
    LET g1 == Tagged(A, 1)
        g2 == Tagged(B, 2)
        s == Trees(g1, g2)
        thrown == s.tree1 = Null \/ s.tree2 = Null
    IN  /\ call' = [operation |-> operation, geo1 |-> g1, geo2 |-> g2, s |-> s, pc |-> 0,
                    status |-> IF thrown THEN "thrown" ELSE "running",
                    result |-> IF thrown THEN TypeError ELSE Null, n |-> n]
        /\ UNCHANGED <<bisectVars, treeVars, boolVars, heapVars, order, sceneVars>>

Enter ==
    \E operation \in Operators, A \in CallSolids, B \in CallSolids :
        /\ call = Null
        /\ EnterCall(operation, A, Recolored(B), 1)

\* the next statement of the body
Step ==
    /\ call /= Null
    /\ call.status = "running"
    /\ call.pc < Len(BodyOf(call.operation))
    /\ call' = [call EXCEPT !.s = Statement(call.s, BodyOf(call.operation)[call.pc + 1]),
                            !.pc = call.pc + 1]
    /\ UNCHANGED <<bisectVars, treeVars, boolVars, heapVars, order, sceneVars>>

\* return tree1.toGeometry()
Return ==
    /\ call /= Null
    /\ call.status = "running"
    /\ call.pc = Len(BodyOf(call.operation))
    /\ call' = [call EXCEPT !.status = "returned", !.result = toGeometry(call.s.tree1)]
    /\ UNCHANGED <<bisectVars, treeVars, boolVars, heapVars, order, sceneVars>>

NextCall == Enter \/ Step \/ Return

SpecCall == Init /\ [][NextCall]_vars

\* a returned Geometry becomes an operand of the next call, on either side of
\* a cube at the origin
MaxChain == 2

EnterFirst ==
    \E operation \in Operators, A \in CallSolids :
        /\ call = Null
        /\ EnterCall(operation, Cube1, A, 1)

EnterAgain ==
    \E operation \in Operators, swap \in BOOLEAN :
        /\ call /= Null
        /\ call.status = "returned"
        /\ call.n < MaxChain
        /\ EnterCall(operation, IF swap THEN Cube1 ELSE call.result,
                                IF swap THEN call.result ELSE Cube1, call.n + 1)

NextChain == EnterFirst \/ Step \/ Return \/ EnterAgain

SpecChain == Init /\ [][NextChain]_vars

\* the polygon records a call holds: in its two trees and in its result
TreePolygons(t) == IF t = Null THEN {} ELSE Range(concatPolys(t))

Held ==
    IF call = Null THEN {}
    ELSE TreePolygons(call.s.tree1) \cup TreePolygons(call.s.tree2)
         \cup (IF call.status = "returned" THEN Range(call.result.polygons) ELSE {})

IsArgument(p) == "obj" \in DOMAIN p

\* the polygon of the arguments that has the name
Argument(name) ==
    IF name[1] = 1 THEN call.geo1.polygons[name[2]] ELSE call.geo2.polygons[name[2]]

\* C21: Union, Intersect and Subtract never write to their arguments: at
\* every statement of the call and after it has returned, every polygon
\* object of geo1.polygons and geo2.polygons has the vertices, the plane and
\* the color it was passed with, and the two lists, which the operator only
\* reads, hold the same polygons in the same order.
C21_ArgumentsNotWritten ==
    \A p \in Held : IsArgument(p) => p = Argument(p.obj)

\* a call has returned a Geometry that holds a polygon object of an argument
\* beside polygons the call created
C21_Witness ==
    /\ call /= Null
    /\ call.status = "returned"
    /\ \E p, r \in Range(call.result.polygons) : IsArgument(p) /\ ~IsArgument(r)

\* C22: Union, Intersect and Subtract complete and return a Geometry for
\* every pair of well-formed geometries, a Geometry returned by an earlier
\* operator (which may hold no polygons) included: no call of a sequence of
\* boolean operations ends in an error.
C22_EveryCallReturns ==
    call /= Null => call.status /= "thrown" /\ call.result /= TypeError

\* the hyperPlanes of a tree's nodes
RECURSIVE HyperPlanes(_)
HyperPlanes(t) ==
    IF t = Null THEN {}
    ELSE (IF t.hyperPlane = Null THEN {} ELSE {t.hyperPlane})
         \cup HyperPlanes(t.front) \cup HyperPlanes(t.behind)

CallPlanes == IF call = Null THEN {} ELSE HyperPlanes(call.s.tree1) \cup HyperPlanes(call.s.tree2)

\* the polygons bisect creates for front and behind
Created(pl, polygon) == Range(Pushed(bisect(pl, polygon), {"front", "behind"}))

RECURSIVE Subtrees(_)
Subtrees(t) == IF t = Null THEN {} ELSE {t} \cup Subtrees(t.front) \cup Subtrees(t.behind)

\* the polygon lies on the back side of the plane: in it and facing against
\* it, or off it with no vertex in front
OnBackSide(pl, q) ==
    IF AllOnPlane(pl, q) THEN dot(pl.normal, q.plane.normal) <= 0
    ELSE \A i \in 1..Len(q.vertices) : Location(pl, q.vertices[i]) /= "front"

IsPrefix(a, b) == Len(a) <= Len(b) /\ SubSeq(b, 1, Len(a)) = a

\* what C25 says of node.trim(polys)
TrimRule(n, polys) ==
    LET ret == trim(n, polys)
    IN  /\ n.behind = Null =>
              /\ \A i \in 1..Len(ret) : ~OnBackSide(n.hyperPlane, ret[i])
              /\ n.front = Null => ret = OutBucket(n, polys)
        /\ n.front = Null =>
              /\ IsPrefix(OutBucket(n, polys), ret)
              /\ \A i \in (Len(OutBucket(n, polys)) + 1)..Len(ret) :
                     OnBackSide(n.hyperPlane, ret[i])

\* the trims a call can make next: the polygons of a node of one tree, by a
\* node of the other tree
RECURSIVE Lists(_)
Lists(t) == IF t = Null THEN {} ELSE {t.polygons} \cup Lists(t.front) \cup Lists(t.behind)

CallTrims ==
    IF call = Null \/ call.s.tree1 = Null \/ call.s.tree2 = Null THEN {}
    ELSE (Subtrees(call.s.tree1) \X Lists(call.s.tree2))
         \cup (Subtrees(call.s.tree2) \X Lists(call.s.tree1))

\* C25: in trim, at a node with no behind child every polygon or fragment
\* routed to the inside bucket is discarded (nothing on the back side of the
\* node's plane is returned), at a node with no front child every polygon or
\* fragment routed to the outside bucket is returned unchanged, and a node
\* with no hyperPlane returns all input polygons.  Checked at every statement
\* of a boolean operator, for every node of one tree and the polygons of
\* every node of the other.
C25_TrimAtMissingChildren ==
    \A c \in CallTrims :
        /\ TrimRule(c[1], c[2])
        /\ trim(BSPNode, c[2]) = c[2]

\* a list is cut by the plane of a node that has neither child, another by
\* the plane of a node that has a behind child only, part of it on each side,
\* and a third by the plane of a node that has a front child only
C25_Witness ==
    /\ \E c \in CallTrims :
          /\ c[1].behind = Null /\ c[1].front = Null
          /\ InsideBucket(c[1], c[2]) /= <<>> /\ OutBucket(c[1], c[2]) /= <<>>
    /\ \E c \in CallTrims :
          /\ c[1].behind /= Null /\ c[1].front = Null
          /\ InsideBucket(c[1], c[2]) /= <<>> /\ OutBucket(c[1], c[2]) /= <<>>
          /\ Len(trim(c[1], c[2])) > Len(OutBucket(c[1], c[2]))
    /\ \E c \in CallTrims :
          /\ c[1].behind = Null /\ c[1].front /= Null
          /\ InsideBucket(c[1], c[2]) /= <<>>

\* the nodes below a reference in pre-order: the node, then its front
\* subtree, then its behind subtree
RECURSIVE PreOrder(_, _)
PreOrder(h, id) ==
    IF id = NoNode THEN <<>>
    ELSE <<id>> \o PreOrder(h, h[id].front) \o PreOrder(h, h[id].behind)

Concats == {k \in 1..Len(calls) : calls[k].op = "concatPolys"}

\* C26: concatPolys returns every polygon stored in the tree exactly once, in
\* pre-order (the node's own polygons, then those of the front subtree, then
\* those of the behind subtree), and does not change the tree: the list is
\* the concatenation of the polygons arrays of the nodes in pre-order, each
\* node taken once, and every node holds the fields it held before the call.
C26_ConcatPolysPreOrder ==
    \A k \in Concats :
        LET c == calls[k]
            nodes == PreOrder(c.heap, c.this)
        IN  /\ c.polys = Flatten([n \in 1..Len(nodes) |-> c.heap[nodes[n]].polygons])
            /\ Cardinality(Range(nodes)) = Len(nodes)
            /\ Range(nodes) = Nodes(c.heap, c.this)
            /\ After(k) = c.heap

\* concatPolys of a tree with a node that has both children, polygons at
\* three or more nodes, and a node that holds two polygons
C26_Witness ==
    \E k \in Concats :
        LET c == calls[k]
        IN  /\ Forked(Deref(c.heap, c.this))
            /\ Cardinality({n \in Nodes(c.heap, c.this) : c.heap[n].polygons /= <<>>}) >= 3
            /\ \E n \in Nodes(c.heap, c.this) : Len(c.heap[n].polygons) >= 2
            /\ Len(c.polys) >= 4

\* the number of nodes on the longest path from the root down
RECURSIVE Depth(_)
Depth(t) ==
    IF t = Null THEN 0
    ELSE 1 + (IF Depth(t.front) >= Depth(t.behind) THEN Depth(t.front) ELSE Depth(t.behind))

\* the planes the polygons of a list lie in, whichever way they face
PlanesUsed(polys) ==
    {CHOOSE q \in Range(polys) : AllOnPlane(q.plane, polys[i]) : i \in 1..Len(polys)}

\* C27: Partition called without an existing tree terminates for every finite
\* list of well-formed polygons, and the depth of the resulting tree is at
\* most the number of polygons in the input list, even though bisect can
\* split one polygon into two: the depth is at most the number of different
\* planes the polygons lie in, which is at most their number.
C27_DepthAtMostLength ==
    order.done =>
        /\ Depth(order.tree1) <= Cardinality(PlanesUsed(order.polys))
        /\ Depth(order.tree2) <= Cardinality(PlanesUsed(order.permuted))
        /\ Cardinality(PlanesUsed(order.polys)) <= Len(order.polys)
        /\ Depth(order.tree1) <= Len(order.polys)
        /\ Depth(order.tree2) <= Len(order.permuted)

\* a list of three polygons whose tree is three nodes deep and holds more
\* than twice as many polygons, two of the three having been split
C27_Witness ==
    /\ order.done
    /\ Len(order.polys) = 3
    /\ Depth(order.tree1) = 3
    /\ Len(order.flat1) > 6

\* the number of polygons the call appended to the four arrays together
AppendedInTotal ==
    Len(Appended(front, lastCall.before.front))
    + Len(Appended(samePlane, lastCall.before.samePlane))
    + Len(Appended(behind, lastCall.before.behind))
    + Len(Appended(reversePlane, lastCall.before.reversePlane))

\* C28: each call of bisect on a convex polygon with at least 3 vertices
\* appends at least one and at most two polygons in total across its four
\* output collections, exactly one when it appends to samePlane or
\* reversePlane, and removes nothing from them.
C28_OneOrTwoAppended ==
    lastCall /= Null =>
        /\ KeptAll
        /\ AppendedInTotal \in 1..2
        /\ (\/ Appended(samePlane, lastCall.before.samePlane) /= <<>>
            \/ Appended(reversePlane, lastCall.before.reversePlane) /= <<>>)
               => AppendedInTotal = 1

\* a triangle that touches the plane with one vertex and lies behind it: its
\* front side has one vertex and is dropped, and the arrays held a polygon
\* before the call
C28_Witness ==
    /\ lastCall /= Null
    /\ Len(lastCall.polygon.vertices) = 3
    /\ ~AllOnPlane(lastCall.plane, lastCall.polygon)
    /\ Len(newFront(lastCall.plane, lastCall.polygon)) = 1
    /\ lastCall.before.behind /= <<>>
    /\ AppendedInTotal = 1

(***************************************************************************)
(* The scene of project.js.  A Mesh object is known by its id, which is    *)
(* also the index of its geometry in the sequence geometry; its name is    *)
(* made from the same counter, so the option of a mesh in the sceneList    *)
(* control is known by the id too.  A handler that throws leaves the       *)
(* globals as they were, so its action is not enabled.                     *)
(***************************************************************************)
\* at most MaxMeshes meshes are created
MaxMeshes == 3

\* Array.prototype.indexOf, 0-based, -1 when absent
indexOf(list, x) ==
    IF \E i \in 1..Len(list) : list[i] = x
    THEN (CHOOSE i \in 1..Len(list) : list[i] = x /\ \A j \in 1..(i - 1) : list[j] /= x) - 1
    ELSE -1

\* list.splice(index, 1): a negative index counts from the end of the list
splice(list, index) ==
    LET at == IF index < 0 THEN Len(list) + index + 1 ELSE index + 1
    IN  IF at < 1 \/ at > Len(list) THEN list
        ELSE SubSeq(list, 1, at - 1) \o SubSeq(list, at + 1, Len(list))

\* the loop that removes the first option with the name of the mesh
RemoveOption(list, mesh) ==
    IF indexOf(list, mesh) < 0 THEN list ELSE splice(list, indexOf(list, mesh))

\* the globals that deleteMesh and createEvent read and write
Scene == [meshes |-> meshes, sceneList |-> sceneList, selected |-> selected, log |-> <<>>]

\* deleteMesh(event, mesh); the log gets the target and the scene before and
\* after each call that reaches the splice
deleteMesh(s, mesh) ==
    LET target == IF mesh = NoMesh THEN s.selected ELSE mesh
        after == splice(s.meshes, indexOf(s.meshes, target))
    IN  IF target = NoMesh THEN s
        ELSE [meshes |-> after,
              sceneList |-> RemoveOption(s.sceneList, target),
              selected |-> NoMesh,
              log |-> Append(s.log, [mesh |-> target, before |-> s.meshes, after |-> after])]

\* createEvent(mesh)
createEvent(s, mesh) ==
    [s EXCEPT !.meshes = Append(s.meshes, mesh),
              !.sceneList = Append(s.sceneList, mesh),
              !.selected = mesh]

\* the globals after a handler, and the record of the event
Becomes(s, name, made) ==
    /\ meshes' = s.meshes
    /\ sceneList' = s.sceneList
    /\ selected' = s.selected
    /\ event' = [name |-> name, before |-> meshes, operands |-> <<boolGeo1, boolGeo2>>,
                 made |-> made, deletes |-> s.log]

\* a new mesh gets the next id; its geometry is kept under that id
NewMesh(geo) ==
    /\ MeshIDs < MaxMeshes
    /\ MeshIDs' = MeshIDs + 1
    /\ geometry' = Append(geometry, geo)

NotScene == <<bisectVars, treeVars, boolVars, heapVars, order, call>>

createCube ==
    /\ NewMesh(Cube(DefaultPos, DefaultScale, "blue"))
    /\ Becomes(createEvent(Scene, MeshIDs + 1), "create", MeshIDs + 1)
    /\ UNCHANGED <<picked, boolGeo1, boolGeo2, NotScene>>

\* selected.clone(gl) throws when nothing is selected
createCopy ==
    /\ selected /= NoMesh
    /\ NewMesh(geometry[selected])
    /\ Becomes(createEvent(Scene, MeshIDs + 1), "copy", MeshIDs + 1)
    /\ UNCHANGED <<picked, boolGeo1, boolGeo2, NotScene>>

\* sceneList.onchange: the user chooses an option of the control
Select ==
    \E k \in 1..Len(sceneList) :
        /\ Becomes([Scene EXCEPT !.selected = sceneList[k]], "select", NoMesh)
        /\ UNCHANGED <<picked, boolGeo1, boolGeo2, geometry, MeshIDs, NotScene>>

\* getPickedMesh(id): picked is assigned when a mesh of the scene has the id
getPickedMesh(id) == IF indexOf(meshes, id) >= 0 THEN id ELSE picked

\* handlePickClick: the pixel under the click holds the id of a mesh of the
\* scene, or a value that is no mesh's id where no mesh is drawn
Pick ==
    \E pixel \in Range(meshes) \cup {NoMesh} :
        /\ picked' = getPickedMesh(pixel)
        /\ Becomes([Scene EXCEPT !.selected = getPickedMesh(pixel)], "pick", NoMesh)
        /\ UNCHANGED <<boolGeo1, boolGeo2, geometry, MeshIDs, NotScene>>

\* geo1SetButton.onclick
SetGeo1 ==
    /\ boolGeo1' = selected
    /\ Becomes(Scene, "set operand 1", NoMesh)
    /\ UNCHANGED <<picked, boolGeo2, geometry, MeshIDs, NotScene>>

\* geo2SetButton.onclick
SetGeo2 ==
    /\ boolGeo2' = selected
    /\ Becomes(Scene, "set operand 2", NoMesh)
    /\ UNCHANGED <<picked, boolGeo1, geometry, MeshIDs, NotScene>>

\* deleteButton.onmousedown = deleteMesh, called with the event only
Delete ==
    /\ Becomes(deleteMesh(Scene, NoMesh), "delete", NoMesh)
    /\ UNCHANGED <<picked, boolGeo1, boolGeo2, geometry, MeshIDs, NotScene>>

Apply(operation, g1, g2) ==
    CASE operation = "Union" -> Union(g1, g2)
      [] operation = "Intersect" -> Intersect(g1, g2)
      [] operation = "Subtract" -> Subtract(g1, g2)

\* unionButton, intersectButton, subtractButton: createBooleanGeometry throws
\* when an operand is null or undefined, or when the operator throws
Boolean ==
    \E operation \in Operators :
        /\ MeshIDs < MaxMeshes
        /\ boolGeo1 /= NoMesh
        /\ boolGeo2 /= NoMesh
        /\ \E geo \in {Apply(operation, transformedGeometry(geometry[boolGeo1]),
                                        transformedGeometry(geometry[boolGeo2]))} :
              /\ geo /= TypeError
              /\ NewMesh(geo)
        /\ Becomes(createEvent(deleteMesh(deleteMesh(Scene, boolGeo1), boolGeo2),
                               MeshIDs + 1),
                   operation, MeshIDs + 1)
        /\ boolGeo1' = MeshIDs + 1
        /\ boolGeo2' = NoMesh
        /\ UNCHANGED <<picked, NotScene>>

NextScene ==
    \/ createCube \/ createCopy \/ Select \/ Pick \/ SetGeo1 \/ SetGeo2 \/ Delete \/ Boolean

SpecScene == Init /\ [][NextScene]_vars

Without(list, gone) == SelectSeq(list, LAMBDA m : m \notin gone)

\* C23: in any sequence of scene events (create, copy, select, pick, set
\* operand 1, set operand 2, delete, boolean operation), a boolean operation
\* removes from the scene exactly its two operand meshes and adds exactly the
\* one result mesh; no other mesh is removed.
C23_BooleanReplacesOperands ==
    (event /= Null /\ event.name \in Operators) =>
        meshes = Append(Without(event.before, Range(event.operands)), event.made)

\* C29: deleteMesh removes from the scene list exactly the mesh it is given
\* (or the selected mesh when none is given) when that mesh is in the scene,
\* and removes no mesh when the target is not in the scene.
C29_DeleteRemovesTarget ==
    event /= Null =>
        \A k \in 1..Len(event.deletes) :
            LET d == event.deletes[k]
            IN  IF d.mesh \in Range(d.before)
                THEN d.after = Without(d.before, {d.mesh})
                ELSE d.after = d.before

InScene(mesh) == mesh = NoMesh \/ mesh \in Range(meshes)

\* C30: after any sequence of scene events, each of selected, boolGeo1 and
\* boolGeo2 is either null or a mesh currently in the scene list.
C30_ReferencesInScene ==
    InScene(selected) /\ InScene(boolGeo1) /\ InScene(boolGeo2)
====
